---- MODULE Spec2Model ----
(***************************************************************************)
(* Model of fm-log-report (src/src/lib.rs): the run() function reads the   *)
(* hwgrok inventory, folds the FMA log line by line into the device hash   *)
(* (process_dev_event) and then renders one report section per device.     *)
(*                                                                         *)
(* Rust Strings that the code inspects (starts_with, contains, ==) are     *)
(* sequences of one-character strings.  Option<T> is a sequence of length  *)
(* 0 (None) or 1 (Some(x)).  A HashMap is a function on its key set.       *)
(***************************************************************************)
EXTENDS Integers, Sequences, FiniteSets, TLC

\* Largest number of lines read from the log file in one run.
MaxLines == 3

None == <<>>
Some(x) == <<x>>

-----------------------------------------------------------------------------
(* String literals of the source and the strings of the inputs.            *)

PFX_EREPORT == <<"e", "r", "e", "p", "o", "r", "t", ".">>
PFX_FM == <<"e", "r", "e", "p", "o", "r", "t", ".", "f", "m", ".">>
PFX_FS == <<"e", "r", "e", "p", "o", "r", "t", ".", "f", "s", ".">>
PFX_PCI == <<"/", "p", "c", "i">>
PAT_DISK == <<"d", "i", "s", "k">>

ClsIoDisk == <<"e", "r", "e", "p", "o", "r", "t", ".", "i", "o", ".", "d", "i", "s", "k">>
ClsIoPci == <<"e", "r", "e", "p", "o", "r", "t", ".", "i", "o", ".", "p", "c", "i">>
ClsFm == <<"e", "r", "e", "p", "o", "r", "t", ".", "f", "m", ".", "x", "x", "x">>
ClsFs == <<"e", "r", "e", "p", "o", "r", "t", ".", "f", "s", ".", "z", "f", "s">>
ClsPlain == <<"i", "o", ".", "d", "i", "s", "k">>
PathPciDisk == <<"/", "p", "c", "i", "@", "0", "/", "d", "i", "s", "k", "@", "1">>
PathPci == <<"/", "p", "c", "i", "@", "0">>
PathUsbDisk == <<"/", "u", "s", "b", "@", "0", "/", "d", "i", "s", "k", "@", "1">>

\* str::starts_with
starts_with(s, prefix) ==
    /\ Len(s) >= Len(prefix)
    /\ SubSeq(s, 1, Len(prefix)) = prefix

\* str::contains
contains(s, pat) ==
    \E i \in 1..(Len(s) - Len(pat) + 1) : SubSeq(s, i, i + Len(pat) - 1) = pat

-----------------------------------------------------------------------------
(* get_event_timestamp: epoch seconds -> "YYYY-MM-DD" in UTC.              *)

DigitChars == <<"0", "1", "2", "3", "4", "5", "6", "7", "8", "9">>

Digit(n) == DigitChars[n + 1]

Pad2(n) == <<Digit((n \div 10) % 10), Digit(n % 10)>>

Pad4(n) == <<Digit((n \div 1000) % 10), Digit((n \div 100) % 10)>> \o Pad2(n % 100)

\* NaiveDateTime::from_timestamp: the proleptic Gregorian date of the day
\* number floor(secs / 86400) counted from 1970-01-01.
civil_from_days(z0) ==
    LET z   == z0 + 719468
        era == z \div 146097
        doe == z - era * 146097
        yoe == (doe - doe \div 1460 + doe \div 36524 - doe \div 146096) \div 365
        doy == doe - (365 * yoe + yoe \div 4 - yoe \div 100)
        mp  == (5 * doy + 2) \div 153
        d   == doy - (153 * mp + 2) \div 5 + 1
        m   == IF mp < 10 THEN mp + 3 ELSE mp - 9
        y   == yoe + era * 400 + (IF m <= 2 THEN 1 ELSE 0)
    IN  [year |-> y, month |-> m, day |-> d]

get_event_timestamp_NoonShift(ev_tod_secs) ==
    LET c == civil_from_days((ev_tod_secs + 43200) \div 86400)
    IN  Pad4(c.year) \o <<"-">> \o Pad2(c.month) \o <<"-">> \o Pad2(c.day)

get_event_timestamp(ev_tod_secs) ==
    LET c == civil_from_days(ev_tod_secs \div 86400)
    IN  Pad4(c.year) \o <<"-">> \o Pad2(c.month) \o <<"-">> \o Pad2(c.day)

-----------------------------------------------------------------------------
(* The log lines a run can read.  A line is what BufReader::lines yields:  *)
(* io = FALSE is an Err item; otherwise json says whether the text is a    *)
(* JSON object, and class / detector / tod are its members when present.   *)

Line(class, detector, tod) ==
    [io |-> TRUE, json |-> TRUE, class |-> class, detector |-> detector, tod |-> tod]

Det(device_path) == Some([scheme |-> "dev", device_path |-> device_path])

L_ioerr    == [io |-> FALSE, json |-> FALSE, class |-> None, detector |-> None, tod |-> None]
L_badjson  == [io |-> TRUE, json |-> FALSE, class |-> None, detector |-> None, tod |-> None]
L_noclass  == Line(None, Det(Some(PathPci)), Some(<<1552694400>>))
L_plain    == Line(Some(ClsPlain), None, None)
L_fm       == Line(Some(ClsFm), None, None)
L_fm_full  == Line(Some(ClsFm), Det(Some(PathPciDisk)), Some(<<1552694400>>))
L_fs       == Line(Some(ClsFs), None, Some(<<1552694400>>))
L_nodet    == Line(Some(ClsIoDisk), None, Some(<<1552694400>>))
L_notod    == Line(Some(ClsIoPci), Det(Some(PathPciDisk)), None)
L_nodp     == Line(Some(ClsIoDisk), Det(None), Some(<<1552694400>>))
L_nodp_e   == Line(Some(ClsIoDisk), Det(None), Some(<<>>))
L_empty    == Line(Some(ClsIoDisk), Det(Some(PathPciDisk)), Some(<<>>))
\* 2019-03-16 00:00:00, 2019-03-16 23:59:59, 2019-03-17 00:00:00, 1969-12-31 23:59:59
L_e1       == Line(Some(ClsIoDisk), Det(Some(PathPciDisk)), Some(<<1552694400>>))
L_e2       == Line(Some(ClsIoPci), Det(Some(PathPciDisk)), Some(<<1552780799, 7>>))
L_e3       == Line(Some(ClsIoDisk), Det(Some(PathPciDisk)), Some(<<1552780800>>))
L_e4       == Line(Some(ClsIoPci), Det(Some(PathPci)), Some(<<1552694400>>))
L_e5       == Line(Some(ClsIoDisk), Det(Some(PathUsbDisk)), Some(<<-1>>))

LineInputs ==
    {L_ioerr, L_badjson, L_noclass, L_plain, L_fm, L_fm_full, L_fs, L_nodet,
     L_notod, L_nodp, L_nodp_e, L_empty, L_e1, L_e2, L_e3, L_e4, L_e5}

-----------------------------------------------------------------------------
(* The hwgrok inventories a run can load.                                  *)

Disk(path, manufacturer) ==
    Some([manufacturer |-> manufacturer, model |-> "m", serial_number |-> "sn",
          disk_firmware_rev |-> "fw", disk_device_path |-> path])

Bay(label, disk) == [label |-> label, disk |-> disk]

Pci(path, vendor) ==
    [pci_vendor_name |-> vendor, pci_device_name |-> "dev",
     pci_subsystem_name |-> "sub", pci_device_path |-> path]

\* HwGrok::default()
HwGrokDefault == [pci_devices |-> <<>>, drive_bays |-> <<>>]

HwGrokSimple ==
    [pci_devices |-> <<Pci(PathPci, "V1")>>,
     drive_bays  |-> <<Bay("bay0", None), Bay("bay1", Disk(PathPciDisk, "Acme"))>>]

\* Duplicate device paths in both sequences, and entries of the "wrong"
\* category for every path.
HwGrokDup ==
    [pci_devices |-> <<Pci(PathPciDisk, "VD"), Pci(PathPci, "V1"),
                       Pci(PathUsbDisk, "VU"), Pci(PathPci, "V2")>>,
     drive_bays  |-> <<Bay("bay0", None), Bay("bay1", Disk(PathPciDisk, "Acme")),
                       Bay("bay2", Disk(PathPci, "Pd")),
                       Bay("bay3", Disk(PathPciDisk, "Bolt")),
                       Bay("bay4", Disk(PathUsbDisk, "Ud"))>>]

HwGrokInputs == {HwGrokDefault, HwGrokSimple, HwGrokDup}

-----------------------------------------------------------------------------
VARIABLES
    pc,           \* position in run(): start, open, read, render, done, err, panic
    cause,        \* why the run ended in err / panic
    hwgrok,       \* the HwGrok struct
    device_hash,  \* HashMap<String, DeviceHashEnt>
    lines_read,   \* the lines of the log consumed so far
    rendered,     \* device paths device_hash.iter() has already yielded
    stdout,       \* what println! has written
    stderr        \* what eprintln! has written

vars == <<pc, cause, hwgrok, device_hash, lines_read, rendered, stdout, stderr>>

EmptyMap == [k \in {} |-> 0]

\* HashMap insert / overwrite of one key
MapPut(m, k, v) == [x \in DOMAIN m \cup {k} |-> IF x = k THEN v ELSE m[x]]

-----------------------------------------------------------------------------
(* serde_json::from_str for the two shapes run() deserializes.             *)

\* FmEvent needs a JSON object with a "class" string.
from_str_FmEvent_Lenient(line) ==
    IF line.json /\ line.class # None
    THEN [ok |-> TRUE, class |-> line.class[1]]
    ELSE [ok |-> TRUE, class |-> <<>>]

from_str_FmEvent(line) ==
    IF line.json /\ line.class # None
    THEN [ok |-> TRUE, class |-> line.class[1]]
    ELSE [ok |-> FALSE, class |-> <<>>]

\* Ereport needs "class", "detector" (with "scheme") and "__tod";
\* "device-path" is an Option and may be missing.
from_str_Ereport(line) ==
    IF line.json /\ line.class # None /\ line.detector # None /\ line.tod # None
    THEN [ok |-> TRUE,
          ereport |-> Some([class |-> line.class[1], detector |-> line.detector[1],
                            tod |-> line.tod[1]])]
    ELSE [ok |-> FALSE, ereport |-> None]

\* The two `continue` tests on event.class at the head of the loop body.
class_skipped_NoFs(class) ==
    \/ ~starts_with(class, PFX_EREPORT)
    \/ starts_with(class, PFX_FM)

class_skipped(class) ==
    \/ ~starts_with(class, PFX_EREPORT)
    \/ starts_with(class, PFX_FM)
    \/ starts_with(class, PFX_FS)

-----------------------------------------------------------------------------
(* The device hash.                                                        *)

DeviceHashEnt_new_NoHistory(ereport, ts) ==
    [ereport_class_hash |-> MapPut(EmptyMap, ereport.class, 1),
     ereport_ts_hash    |-> MapPut(EmptyMap, ts, 1),
     ereports           |-> <<>>,
     ereports_ts        |-> <<ts>>]

DeviceHashEnt_new(ereport, ts) ==
    [ereport_class_hash |-> MapPut(EmptyMap, ereport.class, 1),
     ereport_ts_hash    |-> MapPut(EmptyMap, ts, 1),
     ereports           |-> <<ereport>>,
     ereports_ts        |-> <<ts>>]

occupied_update_AlwaysPushTs(ent, ereport, ts) ==
    LET ch     == ent.ereport_class_hash
        th     == ent.ereport_ts_hash
        new_ts == ts \notin DOMAIN th
    IN  [ereport_class_hash |->
             IF ereport.class \in DOMAIN ch
             THEN MapPut(ch, ereport.class, ch[ereport.class] + 1)
             ELSE MapPut(ch, ereport.class, 1),
         ereport_ts_hash |->
             IF new_ts THEN MapPut(th, ts, 1) ELSE MapPut(th, ts, th[ts] + 1),
         ereports    |-> Append(ent.ereports, ereport),
         ereports_ts |-> Append(ent.ereports_ts, ts)]

\* The Entry::Occupied arm: the accumulator after folding ereport in.
occupied_update(ent, ereport, ts) ==
    LET ch     == ent.ereport_class_hash
        th     == ent.ereport_ts_hash
        new_ts == ts \notin DOMAIN th
    IN  [ereport_class_hash |->
             IF ereport.class \in DOMAIN ch
             THEN MapPut(ch, ereport.class, ch[ereport.class] + 1)
             ELSE MapPut(ch, ereport.class, 1),
         ereport_ts_hash |->
             IF new_ts THEN MapPut(th, ts, 1) ELSE MapPut(th, ts, th[ts] + 1),
         ereports    |-> Append(ent.ereports, ereport),
         ereports_ts |-> IF new_ts THEN Append(ent.ereports_ts, ts)
                                   ELSE ent.ereports_ts]

process_dev_event_SkipEmpty(dh, device_path, ereport) ==
    IF ereport.tod = <<>>
    THEN [panic |-> FALSE, device_hash |-> dh]
    ELSE LET ts == get_event_timestamp(ereport.tod[1])
         IN  [panic |-> FALSE,
              device_hash |->
                  IF device_path \notin DOMAIN dh
                  THEN MapPut(dh, device_path, DeviceHashEnt_new(ereport, ts))
                  ELSE MapPut(dh, device_path,
                              occupied_update(dh[device_path], ereport, ts))]

process_dev_event_Clobber(dh, device_path, ereport) ==
    IF ereport.tod = <<>>
    THEN [panic |-> TRUE, device_hash |-> dh]
    ELSE LET ts == get_event_timestamp(ereport.tod[1])
         IN  [panic |-> FALSE,
              device_hash |->
                  IF device_path \notin DOMAIN dh
                  THEN MapPut(EmptyMap, device_path, DeviceHashEnt_new(ereport, ts))
                  ELSE MapPut(dh, device_path,
                              occupied_update(dh[device_path], ereport, ts))]

\* Result: panic = TRUE when ereport.tod[0] indexes an empty Vec; otherwise
\* the function returns Ok(()) and device_hash is the map it leaves.
process_dev_event(dh, device_path, ereport) ==
    IF ereport.tod = <<>>
    THEN [panic |-> TRUE, device_hash |-> dh]
    ELSE LET ts == get_event_timestamp(ereport.tod[1])
         IN  [panic |-> FALSE,
              device_hash |->
                  IF device_path \notin DOMAIN dh
                  THEN MapPut(dh, device_path, DeviceHashEnt_new(ereport, ts))
                  ELSE MapPut(dh, device_path,
                              occupied_update(dh[device_path], ereport, ts))]

-----------------------------------------------------------------------------
(* One iteration of the `for l in reader.lines()` loop of run().           *)

Outcome(p, c, dh, diag) == [pc |-> p, cause |-> c, device_hash |-> dh, diag |-> diag]

run_line_NoDpFatal(dh, line) ==
    IF ~line.io THEN Outcome("panic", "line_io", dh, <<>>)
    ELSE LET event == from_str_FmEvent(line) IN
    IF ~event.ok THEN Outcome("err", "json", dh, <<>>)
    ELSE IF class_skipped(event.class) THEN Outcome("read", "", dh, <<>>)
    ELSE LET parsed == from_str_Ereport(line) IN
    IF ~parsed.ok THEN Outcome("err", "ereport_parse", dh, <<>>)
    ELSE LET ereport == parsed.ereport[1]
             dp      == ereport.detector.device_path
         IN  IF dp # None
             THEN LET r == process_dev_event(dh, dp[1], ereport)
                  IN  IF r.panic
                      THEN Outcome("panic", "tod_index", dh, <<>>)
                      ELSE Outcome("read", "", r.device_hash, <<>>)
             ELSE Outcome("err", "no_device_path", dh, <<>>)

run_line(dh, line) ==
    IF ~line.io THEN Outcome("panic", "line_io", dh, <<>>)
    ELSE LET event == from_str_FmEvent(line) IN
    IF ~event.ok THEN Outcome("err", "json", dh, <<>>)
    ELSE IF class_skipped(event.class) THEN Outcome("read", "", dh, <<>>)
    ELSE LET parsed == from_str_Ereport(line) IN
    IF ~parsed.ok THEN Outcome("err", "ereport_parse", dh, <<>>)
    ELSE LET ereport == parsed.ereport[1]
             dp      == ereport.detector.device_path
         IN  IF dp # None
             THEN LET r == process_dev_event(dh, dp[1], ereport)
                  IN  IF r.panic
                      THEN Outcome("panic", "tod_index", dh, <<>>)
                      ELSE Outcome("read", "", r.device_hash, <<>>)
             ELSE Outcome("read", "", dh,
                          <<[msg |-> "No device path - skipping", class |-> event.class]>>)

-----------------------------------------------------------------------------
(* The report loop of run().                                               *)

RECURSIVE drive_bay_scan(_, _)
\* for drive_bay in &hwgrok.drive_bays: what the loop prints, in order.
drive_bay_scan(bays, devpath) ==
    IF bays = <<>> THEN <<>>
    ELSE LET drive_bay == Head(bays)
             here ==
                 IF drive_bay.disk # None
                    /\ drive_bay.disk[1].disk_device_path = devpath
                 THEN <<[kind |-> "disk", label |-> drive_bay.label,
                         vendor |-> drive_bay.disk[1].manufacturer,
                         name |-> drive_bay.disk[1].model,
                         serial |-> drive_bay.disk[1].serial_number,
                         rev |-> drive_bay.disk[1].disk_firmware_rev]>>
                 ELSE <<>>
         IN  here \o drive_bay_scan(Tail(bays), devpath)

RECURSIVE pci_dev_scan(_, _)
\* for pci_dev in &hwgrok.pci_devices: what the loop prints, in order.
pci_dev_scan(devs, devpath) ==
    IF devs = <<>> THEN <<>>
    ELSE LET pci_dev == Head(devs)
             here ==
                 IF devpath = pci_dev.pci_device_path
                 THEN <<[kind |-> "pci", label |-> "",
                         vendor |-> pci_dev.pci_vendor_name,
                         name |-> pci_dev.pci_device_name,
                         serial |-> pci_dev.pci_subsystem_name,
                         rev |-> ""]>>
                 ELSE <<>>
         IN  here \o pci_dev_scan(Tail(devs), devpath)

hw_lines_PciFirst(hw, devpath) ==
    IF starts_with(devpath, PFX_PCI)
    THEN pci_dev_scan(hw.pci_devices, devpath)
    ELSE <<>>

\* The if / else if on the shape of devpath.
hw_lines(hw, devpath) ==
    IF starts_with(devpath, PFX_PCI) /\ contains(devpath, PAT_DISK)
    THEN drive_bay_scan(hw.drive_bays, devpath)
    ELSE IF starts_with(devpath, PFX_PCI)
    THEN pci_dev_scan(hw.pci_devices, devpath)
    ELSE <<>>

\* Index of the first element of ereports_ts that ereport_ts_hash.get() does
\* not find (where ent.unwrap() panics), or Len + 1 when every lookup succeeds.
first_missing_ts(devent) ==
    LET n   == Len(devent.ereports_ts)
        bad == {i \in 1..n : devent.ereports_ts[i] \notin DOMAIN devent.ereport_ts_hash}
    IN  IF bad = {} THEN n + 1
        ELSE CHOOSE i \in bad : \A j \in bad : i <= j

\* What one iteration of the report loop prints for (devpath, devent).
section(hw, devpath, devent) ==
    [kind    |-> "section",
     devpath |-> devpath,
     hw      |-> hw_lines(hw, devpath),
     total   |-> Len(devent.ereports),
     classes |-> devent.ereport_class_hash,
     days    |-> [i \in 1..(first_missing_ts(devent) - 1) |->
                     <<devent.ereports_ts[i],
                       devent.ereport_ts_hash[devent.ereports_ts[i]]>>]]

BlankLine ==
    [kind |-> "blank", devpath |-> <<>>, hw |-> <<>>, total |-> 0,
     classes |-> EmptyMap, days |-> <<>>]

-----------------------------------------------------------------------------
Init ==
    /\ pc = "start"
    /\ cause = ""
    /\ hwgrok = HwGrokDefault
    /\ device_hash = EmptyMap
    /\ lines_read = <<>>
    /\ rendered = {}
    /\ stdout = <<>>
    /\ stderr = <<>>

\* config.hwgrok_path is None: HwGrok::default()
NoHwgrok ==
    /\ pc = "start"
    /\ pc' = "open"
    /\ hwgrok' = HwGrokDefault
    /\ UNCHANGED <<cause, device_hash, lines_read, rendered, stdout, stderr>>

\* config.hwgrok_path is Some(path) and process_hwgrok_data returns Ok
LoadHwgrok ==
    /\ pc = "start"
    /\ \E hw \in HwGrokInputs : hwgrok' = hw
    /\ pc' = "open"
    /\ UNCHANGED <<cause, device_hash, lines_read, rendered, stdout, stderr>>

\* process_hwgrok_data returns Err (unreadable file or invalid JSON)
LoadHwgrokFail ==
    /\ pc = "start"
    /\ pc' = "err"
    /\ \E c \in {"hwgrok_read", "hwgrok_parse"} : cause' = c
    /\ UNCHANGED <<hwgrok, device_hash, lines_read, rendered, stdout, stderr>>

\* fs::File::open(&config.fmlog_path)? succeeds; device_hash = HashMap::new()
OpenLog ==
    /\ pc = "open"
    /\ pc' = "read"
    /\ device_hash' = EmptyMap
    /\ UNCHANGED <<cause, hwgrok, lines_read, rendered, stdout, stderr>>

OpenLogFail ==
    /\ pc = "open"
    /\ pc' = "err"
    /\ cause' = "log_open"
    /\ UNCHANGED <<hwgrok, device_hash, lines_read, rendered, stdout, stderr>>

\* reader.lines() yields one more line and the loop body runs on it
ReadLine ==
    /\ pc = "read"
    /\ Len(lines_read) < MaxLines
    /\ \E line \in LineInputs :
          LET o == run_line(device_hash, line)
          IN  /\ lines_read' = Append(lines_read, line)
              /\ pc' = o.pc
              /\ cause' = o.cause
              /\ device_hash' = o.device_hash
              /\ stderr' = stderr \o o.diag
    /\ UNCHANGED <<hwgrok, rendered, stdout>>

\* reader.lines() is exhausted; the println!() before the report loop
EndOfLog ==
    /\ pc = "read"
    /\ pc' = "render"
    /\ stdout' = Append(stdout, BlankLine)
    /\ UNCHANGED <<cause, hwgrok, device_hash, lines_read, rendered, stderr>>

\* device_hash.iter() yields the next (devpath, devent), in no fixed order
RenderDevice ==
    /\ pc = "render"
    /\ \E devpath \in DOMAIN device_hash \ rendered :
          LET devent == device_hash[devpath]
          IN  /\ stdout' = Append(stdout, section(hwgrok, devpath, devent))
              /\ rendered' = rendered \cup {devpath}
              /\ IF first_missing_ts(devent) <= Len(devent.ereports_ts)
                 THEN pc' = "panic" /\ cause' = "ts_unwrap"
                 ELSE UNCHANGED <<pc, cause>>
    /\ UNCHANGED <<hwgrok, device_hash, lines_read, stderr>>

\* device_hash.iter() is exhausted: Ok(())
Finish ==
    /\ pc = "render"
    /\ rendered = DOMAIN device_hash
    /\ pc' = "done"
    /\ UNCHANGED <<cause, hwgrok, device_hash, lines_read, rendered, stdout, stderr>>

Next ==
    \/ NoHwgrok
    \/ LoadHwgrok
    \/ LoadHwgrokFail
    \/ OpenLog
    \/ OpenLogFail
    \/ ReadLine
    \/ EndOfLog
    \/ RenderDevice
    \/ Finish

Spec == Init /\ [][Next]_vars

-----------------------------------------------------------------------------
(* Vocabulary of the properties, stated on the input lines themselves.     *)

IsPrefix(p, s) == Len(p) <= Len(s) /\ \A i \in 1..Len(p) : s[i] = p[i]

HasSub(s, pat) ==
    \E k \in 0..(Len(s) - Len(pat)) : \A i \in 1..Len(pat) : s[k + i] = pat[i]

HasClass(l) == l.io /\ l.json /\ l.class # None

AdmissibleClass(c) ==
    IsPrefix(PFX_EREPORT, c) /\ ~IsPrefix(PFX_FM, c) /\ ~IsPrefix(PFX_FS, c)

\* the line carries every member the Ereport struct requires
FullEreport(l) ==
    HasClass(l) /\ AdmissibleClass(l.class[1]) /\ l.detector # None /\ l.tod # None

Admitted(l) ==
    FullEreport(l) /\ l.detector[1].device_path # None /\ l.tod[1] # <<>>

EreportOf(l) == [class |-> l.class[1], detector |-> l.detector[1], tod |-> l.tod[1]]

\* the admitted ereports of the log read so far that name device path p
AdmittedFor(p) ==
    LET sel == SelectSeq(lines_read,
                   LAMBDA l : Admitted(l) /\ l.detector[1].device_path[1] = p)
    IN  [i \in 1..Len(sel) |-> EreportOf(sel[i])]

InputPaths ==
    {l.detector[1].device_path[1] :
        l \in {x \in LineInputs : x.detector # None /\ x.detector[1].device_path # None}}

InputClasses == {l.class[1] : l \in {x \in LineInputs : x.class # None}}

RECURSIVE SumOver(_, _)
SumOver(f, S) ==
    IF S = {} THEN 0
    ELSE LET x == CHOOSE y \in S : TRUE IN f[x] + SumOver(f, S \ {x})

SumValues(f) == SumOver(f, DOMAIN f)

NoDuplicates(q) == \A i, j \in 1..Len(q) : q[i] = q[j] => i = j

Range(q) == {q[i] : i \in 1..Len(q)}

RECURSIVE FirstSeen(_)
\* q without the later repetitions of its elements
FirstSeen(q) ==
    IF q = <<>> THEN <<>>
    ELSE LET r == FirstSeen(SubSeq(q, 1, Len(q) - 1))
         IN  IF q[Len(q)] \in Range(r) THEN r ELSE Append(r, q[Len(q)])

DigitVal(ch) == CHOOSE n \in 0..9 : DigitChars[n + 1] = ch

\* day number since 1970-01-01 of a "YYYY-MM-DD" key
DayNumberOfKey(k) ==
    LET y0 == 1000 * DigitVal(k[1]) + 100 * DigitVal(k[2]) + 10 * DigitVal(k[3])
              + DigitVal(k[4])
        m  == 10 * DigitVal(k[6]) + DigitVal(k[7])
        d  == 10 * DigitVal(k[9]) + DigitVal(k[10])
        y   == IF m <= 2 THEN y0 - 1 ELSE y0
        era == y \div 400
        yoe == y - era * 400
        doy == (153 * (IF m > 2 THEN m - 3 ELSE m + 9) + 2) \div 5 + d - 1
        doe == yoe * 365 + yoe \div 4 - yoe \div 100 + doy
    IN  era * 146097 + doe - 719468

WellFormedKey(k) ==
    /\ Len(k) = 10
    /\ k[5] = "-" /\ k[8] = "-"
    /\ \A i \in {1, 2, 3, 4, 6, 7, 9, 10} : k[i] \in Range(DigitChars)

Sections == {stdout[i] : i \in {j \in 1..Len(stdout) : stdout[j].kind = "section"}}

Aborted == pc \in {"err", "panic"}

-----------------------------------------------------------------------------
\* C1: in every reachable state, every accumulator of the device map has
\* sum of class counts = sum of day counts = length of its ereport history.
C1_CountsAgree ==
    \A p \in DOMAIN device_hash :
        LET ent == device_hash[p]
        IN  /\ SumValues(ent.ereport_class_hash) = Len(ent.ereports)
            /\ SumValues(ent.ereport_ts_hash) = Len(ent.ereports)

C1_Witness ==
    \E p \in DOMAIN device_hash :
        /\ Len(device_hash[p].ereports) = 3
        /\ Cardinality(DOMAIN device_hash[p].ereport_class_hash) = 2
        /\ Cardinality(DOMAIN device_hash[p].ereport_ts_hash) = 2

\* C2: ereports_ts has no duplicate, its elements are exactly the keys of
\* ereport_ts_hash, it lists the day buckets in the order each was first seen
\* in the device's history, and the renderer's lookup of each element finds a
\* count (the unwrap never panics and every day is printed).
C2_DayOrder ==
    /\ \A p \in DOMAIN device_hash :
          LET ent  == device_hash[p]
              days == [i \in 1..Len(ent.ereports) |->
                          get_event_timestamp(ent.ereports[i].tod[1])]
          IN  /\ NoDuplicates(ent.ereports_ts)
              /\ Range(ent.ereports_ts) = DOMAIN ent.ereport_ts_hash
              /\ ent.ereports_ts = FirstSeen(days)
    /\ cause # "ts_unwrap"
    /\ \A s \in Sections : Len(s.days) = Len(device_hash[s.devpath].ereports_ts)

C2_Witness ==
    /\ pc = "done"
    /\ \E p \in DOMAIN device_hash :
          LET ent == device_hash[p]
          IN  /\ Len(ent.ereports) = 3
              /\ Len(ent.ereports_ts) = 2
              /\ get_event_timestamp(ent.ereports[3].tod[1]) = ent.ereports_ts[1]
              /\ \E s \in Sections : s.devpath = p /\ Len(s.days) = 2

\* C3: a step that reads a line whose class is not "ereport.*", or is
\* "ereport.fm.*" or "ereport.fs.*", leaves the device map unchanged and the
\* loop goes on to the next line, whatever else the line holds (in
\* particular when it has no detector, so that the full parse would fail).
C3_FilteredLineSkipped ==
    [][\A l \in LineInputs :
          (lines_read' = Append(lines_read, l) /\ HasClass(l)
              /\ ~AdmissibleClass(l.class[1]))
          => (device_hash' = device_hash /\ pc' = "read" /\ cause' = cause
              /\ stderr' = stderr /\ stdout' = stdout)]_vars

C3_Witness ==
    /\ pc = "read"
    /\ Len(lines_read) = 3
    /\ DOMAIN device_hash # {}
    /\ HasClass(lines_read[2]) /\ HasClass(lines_read[3])
    /\ IsPrefix(PFX_FS, lines_read[2].class[1]) /\ lines_read[2].detector = None
    /\ IsPrefix(PFX_FM, lines_read[3].class[1]) /\ lines_read[3].detector # None

\* C4 (as claimed): a report section carries the enrichment fields of at most
\* one inventory entry, the first one in sequence order whose device path
\* equals the reported path.
C4_FirstMatchWins ==
    \A s \in Sections :
        /\ Len(s.hw) <= 1
        /\ (s.hw # <<>> /\ s.hw[1].kind = "disk") =>
              \E i \in 1..Len(hwgrok.drive_bays) :
                  /\ hwgrok.drive_bays[i].label = s.hw[1].label
                  /\ \A j \in 1..(i - 1) :
                        \/ hwgrok.drive_bays[j].disk = None
                        \/ hwgrok.drive_bays[j].disk[1].disk_device_path # s.devpath
        /\ (s.hw # <<>> /\ s.hw[1].kind = "pci") =>
              \E i \in 1..Len(hwgrok.pci_devices) :
                  /\ hwgrok.pci_devices[i].pci_vendor_name = s.hw[1].vendor
                  /\ \A j \in 1..(i - 1) :
                        hwgrok.pci_devices[j].pci_device_path # s.devpath

\* C5: nothing is written to standard output before the whole log has been
\* read, and a run in which a fatal condition occurred (inventory or log not
\* readable, a line that is not JSON, a failing full parse, an empty tod on
\* an ereport being aggregated) is aborted with nothing written at all.
FatalLine(l) ==
    \/ ~l.io
    \/ ~l.json
    \/ l.class = None
    \/ /\ AdmissibleClass(l.class[1])
       /\ \/ l.detector = None
          \/ l.tod = None
          \/ (l.tod[1] = <<>> /\ l.detector[1].device_path # None)

C5_NoPartialReport ==
    /\ stdout # <<>> => pc \in {"render", "done"}
    /\ (\E i \in 1..Len(lines_read) : FatalLine(lines_read[i]))
          => (Aborted /\ stdout = <<>>)
    /\ cause \in {"hwgrok_read", "hwgrok_parse", "log_open"}
          => (Aborted /\ stdout = <<>>)

C5_Witness ==
    /\ Aborted
    /\ stdout = <<>>
    /\ Len(lines_read) = 3
    /\ FatalLine(lines_read[3])
    /\ \E p \in DOMAIN device_hash : Len(device_hash[p].ereports) = 2

\* C6: a step that reads an ereport of an admitted class whose detector has
\* no device path writes one diagnostic naming the class, leaves the device
\* map unchanged and does not abort: the loop goes on to the next line.
C6_NoDevicePathSkipped ==
    [][\A l \in LineInputs :
          (lines_read' = Append(lines_read, l) /\ FullEreport(l)
              /\ l.detector[1].device_path = None)
          => /\ device_hash' = device_hash
             /\ pc' = "read"
             /\ cause' = cause
             /\ Len(stderr') = Len(stderr) + 1
             /\ stderr'[Len(stderr')].class = l.class[1]
             /\ stdout' = stdout]_vars

C6_Witness ==
    /\ pc = "done"
    /\ Len(lines_read) = 3
    /\ FullEreport(lines_read[2]) /\ lines_read[2].detector[1].device_path = None
    /\ Admitted(lines_read[1]) /\ Admitted(lines_read[3])
    /\ Len(stderr) = 1
    /\ \E p \in DOMAIN device_hash : Len(device_hash[p].ereports) = 2

\* C7 (as claimed): every ereport of an admitted class with an empty tod
\* aborts the run at its line, with or without a device path.
C7_EmptyTodAlwaysFatal ==
    \A i \in 1..Len(lines_read) :
        (FullEreport(lines_read[i]) /\ lines_read[i].tod[1] = <<>>)
        => (Aborted /\ i = Len(lines_read))

\* C7 (amended): every ereport of an admitted class with an empty tod whose
\* detector carries a device path aborts the run at its line: it is the last
\* line read, nothing of it reaches the device map and nothing is printed.
C7_EmptyTodFatalWithDevicePath ==
    \A i \in 1..Len(lines_read) :
        (FullEreport(lines_read[i]) /\ lines_read[i].tod[1] = <<>>
            /\ lines_read[i].detector[1].device_path # None)
        => /\ Aborted
           /\ i = Len(lines_read)
           /\ stdout = <<>>
           /\ \A p \in DOMAIN device_hash :
                 \A k \in 1..Len(device_hash[p].ereports) :
                     device_hash[p].ereports[k].tod # <<>>

C7_Witness ==
    /\ pc = "panic"
    /\ cause = "tod_index"
    /\ Len(lines_read) = 2
    /\ lines_read[2].tod[1] = <<>>
    /\ lines_read[2].detector[1].device_path # None
    /\ DOMAIN device_hash # {}

\* C8: the enrichment of a section depends on the shape of its path: none
\* for a path that does not begin with "/pci"; for a "/pci" path containing
\* "disk", exactly the drive bays holding a disk with that device path (and
\* nothing of pci_devices); for any other "/pci" path, exactly the PCI
\* devices with that device path (and nothing of drive_bays).
C8_CategoryDispatch ==
    \A s \in Sections :
        LET bays == {i \in 1..Len(hwgrok.drive_bays) :
                        /\ hwgrok.drive_bays[i].disk # None
                        /\ hwgrok.drive_bays[i].disk[1].disk_device_path = s.devpath}
            pcis == {i \in 1..Len(hwgrok.pci_devices) :
                        hwgrok.pci_devices[i].pci_device_path = s.devpath}
            shown(kind) == {s.hw[i] : i \in {j \in 1..Len(s.hw) : s.hw[j].kind = kind}}
        IN  IF ~IsPrefix(PFX_PCI, s.devpath)
            THEN s.hw = <<>>
            ELSE IF HasSub(s.devpath, PAT_DISK)
            THEN /\ shown("pci") = {}
                 /\ {x.label : x \in shown("disk")}
                       = {hwgrok.drive_bays[i].label : i \in bays}
                 /\ {x.vendor : x \in shown("disk")}
                       = {hwgrok.drive_bays[i].disk[1].manufacturer : i \in bays}
            ELSE /\ shown("disk") = {}
                 /\ {x.vendor : x \in shown("pci")}
                       = {hwgrok.pci_devices[i].pci_vendor_name : i \in pcis}

C8_Witness ==
    /\ pc = "done"
    /\ hwgrok = HwGrokDup
    /\ \E s1, s2, s3 \in Sections :
          /\ s1.devpath = PathPciDisk /\ s1.hw # <<>>
          /\ s2.devpath = PathPci /\ s2.hw # <<>>
          /\ s3.devpath = PathUsbDisk /\ s3.hw = <<>>

\* C9: for every device path p, the map holds p exactly when some admitted
\* ereport of the log names p; then history is those ereports in input
\* order, class_counts[c] is the number of them of class c (no key for 0)
\* and day_counts[d] is the number of them whose first tod element lies on
\* the UTC day d (no key for 0); one ereport gives one entry of each, count 1.
C9_CountsMatchLog ==
    \A p \in InputPaths \cup DOMAIN device_hash :
        LET adm == AdmittedFor(p)
            nclass(c) == Cardinality({i \in 1..Len(adm) : adm[i].class = c})
            nday(n) == Cardinality({i \in 1..Len(adm) : adm[i].tod[1] \div 86400 = n})
        IN  /\ p \in DOMAIN device_hash <=> adm # <<>>
            /\ p \in DOMAIN device_hash =>
                  LET ent == device_hash[p]
                  IN  /\ ent.ereports = adm
                      /\ DOMAIN ent.ereport_class_hash = {adm[i].class : i \in 1..Len(adm)}
                      /\ \A c \in DOMAIN ent.ereport_class_hash :
                            ent.ereport_class_hash[c] = nclass(c)
                      /\ \A k \in DOMAIN ent.ereport_ts_hash :
                            /\ WellFormedKey(k)
                            /\ ent.ereport_ts_hash[k] = nday(DayNumberOfKey(k))
                            /\ ent.ereport_ts_hash[k] > 0
                      /\ {DayNumberOfKey(k) : k \in DOMAIN ent.ereport_ts_hash}
                            = {adm[i].tod[1] \div 86400 : i \in 1..Len(adm)}
                      /\ Cardinality(DOMAIN ent.ereport_ts_hash)
                            = Cardinality({adm[i].tod[1] \div 86400 : i \in 1..Len(adm)})
                      /\ Len(adm) = 1 =>
                            /\ Len(ent.ereports) = 1
                            /\ \E c \in InputClasses :
                                  ent.ereport_class_hash = MapPut(EmptyMap, c, 1)
                            /\ Cardinality(DOMAIN ent.ereport_ts_hash) = 1
                            /\ SumValues(ent.ereport_ts_hash) = 1

C9_Witness ==
    \E p \in DOMAIN device_hash :
        LET ent == device_hash[p]
        IN  /\ Len(ent.ereports) = 2
            /\ ent.ereports[1].tod[1] # ent.ereports[2].tod[1]
            /\ Cardinality(DOMAIN ent.ereport_ts_hash) = 1
            /\ \E k \in DOMAIN ent.ereport_ts_hash : ent.ereport_ts_hash[k] = 2
            /\ Cardinality(DOMAIN ent.ereport_class_hash) = 2
            /\ \E q \in DOMAIN device_hash :
                  q # p /\ Len(device_hash[q].ereports) = 1

\* C10: no step removes a key of the device map; a step that admits an
\* ereport for p leaves every other entry as it was and adds no key but p;
\* every other step, the rendering steps included, leaves the map unchanged.
C10_Frame ==
    [][/\ DOMAIN device_hash \subseteq DOMAIN device_hash'
       /\ Cardinality(DOMAIN device_hash') <= Cardinality(DOMAIN device_hash) + 1
       /\ \A l \in LineInputs :
             (lines_read' = Append(lines_read, l) /\ Admitted(l)) =>
                 LET p == l.detector[1].device_path[1]
                 IN  /\ DOMAIN device_hash' = DOMAIN device_hash \cup {p}
                     /\ Len(device_hash'[p].ereports)
                           = (IF p \in DOMAIN device_hash
                              THEN Len(device_hash[p].ereports) ELSE 0) + 1
                     /\ \A q \in DOMAIN device_hash \ {p} :
                           device_hash'[q] = device_hash[q]
       /\ (lines_read' = lines_read \/ pc \in {"render", "done"})
             => device_hash' = device_hash]_vars

C10_Witness ==
    /\ pc = "done"
    /\ Cardinality(DOMAIN device_hash) = 3
    /\ Len(stdout) = 4

====
